---- MODULE Spec2Model ----
(***************************************************************************)
(* Aircnc-Mobile, the Book screen: the reservation-date validator          *)
(* (src/config/schemas/BookSchema.ts) and the submission flow around it    *)
(* (src/pages/Book.tsx).                                                   *)
(*                                                                         *)
(* Time.  A JavaScript Date is a UTC time value; the model counts it in    *)
(* ticks, TicksPerDay ticks to the day, from 1970-01-01T00:00Z.  The       *)
(* device's zone is a fixed offset tz (in ticks, no daylight saving), so   *)
(* LocalTime(t) = t + tz.  The calendar operators are those of ECMA-262    *)
(* section 21.4.1 (Day, TimeWithinDay, DayFromYear, YearFromTime,          *)
(* MonthFromTime, DateFromTime, MakeDay, MakeDate), months 0-based.        *)
(*                                                                         *)
(* Events.  The screen runs on one thread: each action is one handler, or  *)
(* one stretch of an async function between two awaits, and the state it   *)
(* sets is rendered (the controls' disabled props included) before the     *)
(* next event is handled.  An Alert dialog covers the screen until it is   *)
(* dismissed.                                                              *)
(***************************************************************************)
EXTENDS Integers, Sequences, FiniteSets, TLC

VARIABLES
    now,            \* the clock: what new Date() / Date.now() returns
    tz,             \* the device's UTC offset, in ticks
    platform,       \* Platform.OS
    formDate,       \* the form's dataReserva value (watch('dataReserva'))
    showDatePicker, \* useState(false), Book.tsx:37
    isLoading,      \* useState(false), Book.tsx:36
    isSubmitting,   \* formState.isSubmitting
    errors,         \* formState.errors.dataReserva: the validator's issues
    runs,           \* the handleSubmit(onSubmit) calls that have not returned
    data,           \* the validated value handed to onSubmit
    storage,        \* AsyncStorage's value under 'user'
    inflight,       \* the api.post requests sent and not yet answered
    alert,          \* the Alert dialogs on screen, the last on top
    screen,         \* the screen the navigator shows
    effects,        \* what the last handleSubmit call to return did, in order
    outcome,        \* how the last handleSubmit call to return ended
    taps,           \* submit presses accepted so far
    sent            \* api.post requests sent so far

vars == <<now, tz, platform, formDate, showDatePicker, isLoading, isSubmitting,
          errors, runs, data, storage, inflight, alert, screen, effects, outcome,
          taps, sent>>

(***************************************************************************)
(* Bounds of the model.                                                    *)
(***************************************************************************)
\* Ticks to the day: the granularity of time-of-day.
TicksPerDay == 2
\* The first day (since 1970-01-01) the clock may show: 2026-11-01.
FirstDay == 20758
\* The clock's days, to 2028-02-29: every month as the start and as the end
\* of three months, February of a common year (2027) and of a leap year (2028)
\* as both.
NumDays == 486
\* Candidate dates run from PastDays before today ...
PastDays == 1
\* ... to AheadDays after it (three months are at most 92 days).
AheadDays == 93
\* Device offsets run from -MaxOffset to MaxOffset ticks.
MaxOffset == 1
\* The flow's clock starts on this day (2027-02-01) ...
FlowFirstDay == 20850
\* ... and advances at most MaxClock ticks.
MaxClock == 2
\* The submit presses one behaviour of the flow accepts.
MaxSubmits == 2

(***************************************************************************)
(* Program constants.                                                      *)
(***************************************************************************)
\* maxDate.setMonth(maxDate.getMonth() + 3)
MonthsAhead == 3
\* maximumDate = new Date(Date.now() + 90 * 24 * 60 * 60 * 1000)
PickerDays == 90

MsgPast == "Data da reserva deve ser hoje ou no futuro"
MsgFuture == "Data da reserva nao pode ser mais de 3 meses no futuro"

(***************************************************************************)
(* ECMA-262 time arithmetic, as the Date methods of the source use it.     *)
(***************************************************************************)
Day(t) == t \div TicksPerDay
TimeWithinDay(t) == t % TicksPerDay

DayFromYear(y) ==
    365 * (y - 1970) + ((y - 1969) \div 4) - ((y - 1901) \div 100)
        + ((y - 1601) \div 400)

DaysInYear(y) ==
    IF y % 4 # 0 THEN 365
    ELSE IF y % 100 # 0 THEN 366
    ELSE IF y % 400 # 0 THEN 365
    ELSE 366

\* YearFromTime, on a day number
YearFromDay(dn) ==
    CHOOSE y \in (1970 + dn \div 366)..(1970 + dn \div 365 + 1) :
        DayFromYear(y) <= dn /\ dn < DayFromYear(y + 1)

InLeapYear(dn) == IF DaysInYear(YearFromDay(dn)) = 366 THEN 1 ELSE 0

DayWithinYear(dn) == dn - DayFromYear(YearFromDay(dn))

\* The day within a year on which month m (0-based; 12 is the year's end) starts.
MonthStart(m, leap) ==
    CASE m = 0 -> 0
      [] m = 1 -> 31
      [] m = 2 -> 59 + leap
      [] m = 3 -> 90 + leap
      [] m = 4 -> 120 + leap
      [] m = 5 -> 151 + leap
      [] m = 6 -> 181 + leap
      [] m = 7 -> 212 + leap
      [] m = 8 -> 243 + leap
      [] m = 9 -> 273 + leap
      [] m = 10 -> 304 + leap
      [] m = 11 -> 334 + leap
      [] OTHER -> 365 + leap

\* MonthFromTime, on a day number
MonthFromDay(dn) ==
    LET leap == InLeapYear(dn)
        dwy == DayWithinYear(dn)
    IN  CHOOSE m \in 0..11 :
            MonthStart(m, leap) <= dwy /\ dwy < MonthStart(m + 1, leap)

\* DateFromTime, on a day number: the day of the month, from 1
DateFromDay(dn) ==
    DayWithinYear(dn) - MonthStart(MonthFromDay(dn), InLeapYear(dn)) + 1

\* MakeDay(year, month, date): month and date may lie outside their ranges and
\* carry over, as in Date.prototype.setMonth.
MakeDay(year, month, date) ==
    LET ym == year + (month \div 12)
        mn == month % 12
        leap == IF DaysInYear(ym) = 366 THEN 1 ELSE 0
    IN  DayFromYear(ym) + MonthStart(mn, leap) + date - 1

MakeDate(dn, time) == dn * TicksPerDay + time

\* The days the model's dates fall on, and YearFromTime, MonthFromTime and
\* DateFromTime of each, computed once.
CalendarDays ==
    (FirstDay - PastDays - 2)..(FirstDay + NumDays + AheadDays + PickerDays + 2)

Calendar ==
    [dn \in CalendarDays |-> <<YearFromDay(dn), MonthFromDay(dn), DateFromDay(dn)>>]

\* Local time of a time value, and back (a fixed offset).
LocalTime(t, off) == t + off
UTC(t, off) == t - off

\* date.getMonth()
GetMonth(t, off) == Calendar[Day(LocalTime(t, off))][2]

\* date.setHours(0, 0, 0, 0): local midnight of the same local day
SetHoursZero(t, off) == UTC(MakeDate(Day(LocalTime(t, off)), 0), off)

\* date.setMonth(month): the local year, day of month and time of day are kept
SetMonth(t, month, off) ==
    LET c == Calendar[Day(LocalTime(t, off))]
    IN  UTC(MakeDate(MakeDay(c[1], month, c[3]),
                     TimeWithinDay(LocalTime(t, off))), off)

\* The calendar day <<year, month (1-based), day>> of a day number.
CivilDay(dn) == <<Calendar[dn][1], Calendar[dn][2] + 1, Calendar[dn][3]>>

(***************************************************************************)
(* BookSchema.ts: the two refinements of dataReserva.  zod runs every      *)
(* refinement of the chain and collects the issues of those that fail, in  *)
(* order.  Both read the clock (new Date()) and the device's zone.         *)
(***************************************************************************)
\* A variant of refine 1 that truncates with setUTCHours(0, 0, 0, 0).
NotInPast_utc(date, t, off) == date >= MakeDate(Day(t), 0)

\* refine 1: today = new Date(); today.setHours(0, 0, 0, 0); date >= today
NotInPast(date, t, off) == date >= SetHoursZero(t, off)

\* refine 2: maxDate = new Date(); maxDate.setMonth(maxDate.getMonth() + 3);
\* date <= maxDate
MaxDate(t, off) == SetMonth(t, GetMonth(t, off) + MonthsAhead, off)

NotTooFar(date, t, off) == date <= MaxDate(t, off)

bookSchema(date, t, off) ==
    (IF NotInPast(date, t, off) THEN <<>> ELSE <<MsgPast>>)
        \o (IF NotTooFar(date, t, off) THEN <<>> ELSE <<MsgFuture>>)

(***************************************************************************)
(* Book.tsx: the date conversions and the picker's bounds.  A formatted    *)
(* date is the tuple of its numeric fields in the order the string holds   *)
(* them.                                                                   *)
(***************************************************************************)
\* data.dataReserva.toISOString().split('T')[0]: YYYY-MM-DD of the UTC day
ToISODate(date) ==
    LET c == CivilDay(Day(date)) IN <<c[1], c[2], c[3]>>

\* date.toLocaleDateString('pt-BR'): DD/MM/YYYY of the local day
ToLocaleDateString(date, off) ==
    LET c == CivilDay(Day(LocalTime(date, off))) IN <<c[3], c[2], c[1]>>

\* formatDate(selectedDate): the same with 2-digit day and month
formatDate(date, off) == ToLocaleDateString(date, off)

\* minimumDate={new Date()}
MinimumDate(t) == t

\* maximumDate={new Date(Date.now() + 90 * 24 * 60 * 60 * 1000)}
MaximumDate(t) == t + PickerDays * TicksPerDay

\* The calendar day <<year, month, day>> an ISO date and a pt-BR date denote.
DayOfISO(s) == <<s[1], s[2], s[3]>>
DayOfBR(s) == <<s[3], s[2], s[1]>>

(***************************************************************************)
(* Book.tsx: the submission flow.                                          *)
(***************************************************************************)
Null == "null"
Undefined == "undefined"

MsgLogin == "Usuario nao encontrado. Faca login novamente."
MsgSuccess == "Reserva solicitada para"
MsgGeneric == "Nao foi possivel enviar a solicitacao. Tente novamente."
MsgInvalid == "Dados invalidos. Verifique a data e tente novamente."
MsgExpired == "Sessao expirada. Faca login novamente."
MsgConflict == "Voce ja possui uma reserva para este spot nesta data."

\* Alert.alert(title, message): the dialog, and the date its message embeds
AlertOf(title, message, date) ==
    [title |-> title, message |-> message, date |-> date]

ErrorAlert(message) == AlertOf("Erro", message, <<>>)

\* Alert.alert('Sucesso!', `Reserva solicitada para ${dataFormatada}`, [OK])
SuccessAlert(dataFormatada) == AlertOf("Sucesso!", MsgSuccess, dataFormatada)

\* What a handleSubmit call did: requests, dialogs, navigations.
Posted(req) == [op |-> "post", arg |-> req]
Alerted(a) == [op |-> "alert", arg |-> a]
Navigated(to) == [op |-> "navigate", arg |-> to]

\* await AsyncStorage.getItem('user') ?? ''
UserId(raw) == IF raw = Null THEN "" ELSE raw

\* A variant of the check that tests for null only.
MissingUser_nullOnly(user_id) == user_id = Null

\* if (!user_id)
MissingUser(user_id) == user_id = ""

\* What api.post may meet: success, or a rejection whose error.response?.status
\* is 400, 401, 409, another status ("500" stands for all of them) or undefined
\* (no response).
Success == "ok"
Responses == {Success, "400", "401", "409", "500", Undefined}

\* A variant of the choice without the 409 branch.
ErrorMessage_no409(status) ==
    IF status = "400" THEN MsgInvalid
    ELSE IF status = "401" THEN MsgExpired
    ELSE MsgGeneric

\* The catch block's choice of message by error.response?.status
ErrorMessage(status) ==
    IF status = "400" THEN MsgInvalid
    ELSE IF status = "401" THEN MsgExpired
    ELSE IF status = "409" THEN MsgConflict
    ELSE MsgGeneric

\* The catch block: for 401 it navigates to Login and returns before
\* Alert.alert; otherwise it shows the chosen message.
CatchEffects(status) ==
    IF status = "401" THEN <<Navigated("Login")>>
    ELSE <<Alerted(ErrorAlert(ErrorMessage(status)))>>

\* A variant of onSubmit without the finally block: the flag keeps its value.
FinallyIsLoading_missing == isLoading

\* finally { setIsLoading(false) }
FinallyIsLoading == FALSE

\* A variant of the submit control disabled as the other controls are.
SubmitDisabled_loadingOnly == isLoading

\* disabled={isLoading || isSubmitting} on the submit control
SubmitDisabled == isLoading \/ isSubmitting

\* disabled={isLoading} on the date button and on the cancel control
ControlsDisabled == isLoading

\* A variant of the reset that keeps the form's values.
ResetValue_keep == formDate

\* reset({ dataReserva: new Date() })
ResetValue == now

\* The Book screen's controls can be touched: the screen is shown and no
\* Alert dialog covers it.
Touchable == screen = "Book" /\ alert = <<>>

RemoveAt(seq, i) == SubSeq(seq, 1, i - 1) \o SubSeq(seq, i + 1, Len(seq))

\* The dialogs and the screen after a handleSubmit call's effects.
AlertsAfter(fx) ==
    alert \o [k \in 1..Len(SelectSeq(fx, LAMBDA e : e.op = "alert")) |->
                SelectSeq(fx, LAMBDA e : e.op = "alert")[k].arg]

ScreenAfter(fx) ==
    LET navs == SelectSeq(fx, LAMBDA e : e.op = "navigate")
    IN  IF navs = <<>> THEN screen ELSE navs[Len(navs)].arg

\* A handleSubmit call in onSubmit: between setIsLoading(true) and finally.
InOnSubmit(r) == r.at \in {"storage", "posting"}

(***************************************************************************)
(* The inputs.                                                             *)
(***************************************************************************)
ClockTimes == (FirstDay * TicksPerDay)..((FirstDay + NumDays) * TicksPerDay - 1)
Offsets == (0 - MaxOffset)..MaxOffset
Platforms == {"ios", "android"}
StoredUsers == {Null, "", "u1"}

\* The dates a form value is drawn from: every time of day of every day from
\* PastDays before the local today to AheadDays after it.
Candidates(t, off) ==
    LET today == SetHoursZero(t, off)
    IN  (today - PastDays * TicksPerDay)..(today + (AheadDays + 1) * TicksPerDay - 1)

\* What the picker hands onDateChange in the flow, as a sequence of at most
\* one date: nothing (dismissed), or its first or last selectable date.
PickerChoices(t) == {<<>>, <<MinimumDate(t)>>, <<MaximumDate(t)>>}

FlowStart == FlowFirstDay * TicksPerDay

(***************************************************************************)
(* The screen after construction: useState(false) twice, useForm with      *)
(* defaultValues { dataReserva: new Date() }.                              *)
(***************************************************************************)
Mounted ==
    /\ formDate = now
    /\ showDatePicker = FALSE
    /\ isLoading = FALSE
    /\ isSubmitting = FALSE
    /\ errors = <<>>
    /\ runs = <<>>
    /\ data = now
    /\ inflight = {}
    /\ alert = <<>>
    /\ screen = "Book"
    /\ effects = <<>>
    /\ outcome = "none"
    /\ taps = 0
    /\ sent = 0

Init ==
    /\ now = FlowStart
    /\ tz \in Offsets
    /\ platform \in Platforms
    /\ storage \in StoredUsers
    /\ Mounted

\* Time passes.
Tick ==
    /\ now < FlowStart + MaxClock
    /\ now' = now + 1
    /\ UNCHANGED <<tz, platform, formDate, showDatePicker, isLoading,
                   isSubmitting, errors, runs, data, storage, inflight, alert,
                   screen, effects, outcome, taps, sent>>

\* showDatePickerModal, the date button's onPress
showDatePickerModal ==
    /\ Touchable
    /\ ~ControlsDisabled
    /\ showDatePicker' = TRUE
    /\ UNCHANGED <<now, tz, platform, formDate, isLoading, isSubmitting,
                   errors, runs, data, storage, inflight, alert, screen,
                   effects, outcome, taps, sent>>

\* onDateChange(event, selectedDate), the rendered picker's onChange;
\* selectedDate is <<>> when undefined
onDateChange(selectedDate) ==
    /\ Touchable
    /\ showDatePicker
    /\ showDatePicker' = (platform = "ios")
    /\ formDate' = IF selectedDate # <<>> THEN selectedDate[1] ELSE formDate
    /\ UNCHANGED <<now, tz, platform, isLoading, isSubmitting, errors, runs,
                   data, storage, inflight, alert, screen, effects, outcome,
                   taps, sent>>

\* handleCancel, the cancel control's onPress
handleCancel ==
    /\ Touchable
    /\ ~ControlsDisabled
    /\ screen' = "List"
    /\ UNCHANGED <<now, tz, platform, formDate, showDatePicker, isLoading,
                   isSubmitting, errors, runs, data, storage, inflight, alert,
                   effects, outcome, taps, sent>>

\* The user comes back to the Book screen, which stayed mounted under the
\* screen navigated to.
GoBack ==
    /\ screen # "Book"
    /\ alert = <<>>
    /\ screen' = "Book"
    /\ UNCHANGED <<now, tz, platform, formDate, showDatePicker, isLoading,
                   isSubmitting, errors, runs, data, storage, inflight, alert,
                   effects, outcome, taps, sent>>

\* The submit control's onPress, handleSubmit(onSubmit), to its first await:
\* isSubmitting is set and the resolver is started.
PressSubmit ==
    /\ Touchable
    /\ ~SubmitDisabled
    /\ taps < MaxSubmits
    /\ taps' = taps + 1
    /\ isSubmitting' = TRUE
    /\ runs' = Append(runs, [id |-> taps + 1, at |-> "validating",
                             data |-> formDate, did |-> <<>>])
    /\ UNCHANGED <<now, tz, platform, formDate, showDatePicker, isLoading,
                   errors, data, storage, inflight, alert, screen, effects,
                   outcome, sent>>

\* A handleSubmit call returns: it leaves runs, isSubmitting is cleared, and
\* what it did is shown.
Returns(i, how, fx) ==
    /\ runs' = RemoveAt(runs, i)
    /\ isSubmitting' = FALSE
    /\ outcome' = how
    /\ effects' = runs[i].did \o fx
    /\ alert' = AlertsAfter(fx)
    /\ screen' = ScreenAfter(fx)

\* The resolver answers.  With issues, handleSubmit records them and returns;
\* without, it calls onSubmit(data), which runs to its first await:
\* setIsLoading(true), AsyncStorage.getItem('user').
Validated(i) ==
    /\ i \in 1..Len(runs)
    /\ runs[i].at = "validating"
    /\ LET issues == bookSchema(formDate, now, tz)
       IN  /\ errors' = issues
           /\ IF issues # <<>>
              THEN /\ Returns(i, "invalid", <<>>)
                   /\ UNCHANGED <<isLoading, data>>
              ELSE /\ isLoading' = TRUE
                   /\ data' = formDate
                   /\ runs' = [runs EXCEPT ![i].at = "storage",
                                           ![i].data = formDate]
                   /\ UNCHANGED <<isSubmitting, outcome, effects, alert, screen>>
    /\ UNCHANGED <<now, tz, platform, formDate, showDatePicker, storage,
                   inflight, taps, sent>>

\* AsyncStorage.getItem answers with the stored value.  Without a user id
\* onSubmit alerts, navigates to Login and returns through finally; with one
\* it formats the date and runs to its second await, api.post.
StorageRead(i) ==
    /\ i \in 1..Len(runs)
    /\ runs[i].at = "storage"
    /\ LET user_id == UserId(storage)
           req == [id |-> runs[i].id, date |-> ToISODate(runs[i].data),
                   user_id |-> user_id]
       IN  IF MissingUser(user_id)
           THEN /\ Returns(i, "nouser",
                           <<Alerted(ErrorAlert(MsgLogin)), Navigated("Login")>>)
                /\ isLoading' = FinallyIsLoading
                /\ UNCHANGED <<inflight, sent>>
           ELSE /\ runs' = [runs EXCEPT ![i].at = "posting",
                                        ![i].did = <<Posted(req)>>]
                /\ inflight' = inflight \cup {req}
                /\ sent' = sent + 1
                /\ UNCHANGED <<isLoading, isSubmitting, outcome, effects,
                               alert, screen>>
    /\ UNCHANGED <<now, tz, platform, formDate, showDatePicker, errors, data,
                   storage, taps>>

\* AsyncStorage.getItem rejects: the catch block sees an error without a
\* response.
StorageFails(i) ==
    /\ i \in 1..Len(runs)
    /\ runs[i].at = "storage"
    /\ Returns(i, "exception", CatchEffects(Undefined))
    /\ isLoading' = FinallyIsLoading
    /\ UNCHANGED <<now, tz, platform, formDate, showDatePicker, errors, data,
                   storage, inflight, taps, sent>>

\* api.post answers: on success onSubmit shows the confirmation, on a
\* rejection its catch block runs; both return through finally.
Response(i, r) ==
    /\ i \in 1..Len(runs)
    /\ runs[i].at = "posting"
    /\ inflight' = {q \in inflight : q.id # runs[i].id}
    /\ IF r = Success
       THEN Returns(i, Success,
                    <<Alerted(SuccessAlert(ToLocaleDateString(runs[i].data, tz)))>>)
       ELSE Returns(i, r, CatchEffects(r))
    /\ isLoading' = FinallyIsLoading
    /\ UNCHANGED <<now, tz, platform, formDate, showDatePicker, errors, data,
                   storage, taps, sent>>

\* The user presses OK on the confirmation: its onPress resets the form to
\* new Date() and navigates to List.
AckSuccess ==
    /\ alert # <<>>
    /\ alert[Len(alert)].title = "Sucesso!"
    /\ alert' = SubSeq(alert, 1, Len(alert) - 1)
    /\ formDate' = ResetValue
    /\ errors' = <<>>
    /\ screen' = "List"
    /\ UNCHANGED <<now, tz, platform, showDatePicker, isLoading, isSubmitting,
                   runs, data, storage, inflight, effects, outcome, taps, sent>>

\* The user dismisses an error dialog, which has no onPress.
DismissError ==
    /\ alert # <<>>
    /\ alert[Len(alert)].title = "Erro"
    /\ alert' = SubSeq(alert, 1, Len(alert) - 1)
    /\ UNCHANGED <<now, tz, platform, formDate, showDatePicker, isLoading,
                   isSubmitting, errors, runs, data, storage, inflight, screen,
                   effects, outcome, taps, sent>>

Next ==
    \/ Tick
    \/ showDatePickerModal
    \/ \E d \in PickerChoices(now) : onDateChange(d)
    \/ handleCancel
    \/ GoBack
    \/ PressSubmit
    \/ \E i \in 1..MaxSubmits : Validated(i)
    \/ \E i \in 1..MaxSubmits : StorageRead(i)
    \/ \E i \in 1..MaxSubmits : StorageFails(i)
    \/ \E i \in 1..MaxSubmits, r \in Responses : Response(i, r)
    \/ AckSuccess
    \/ DismissError

Spec == Init /\ [][Next]_vars

\* The runtime runs every pending continuation, and every request sent is
\* answered or rejected.
Progress ==
    \/ \E i \in 1..MaxSubmits : Validated(i)
    \/ \E i \in 1..MaxSubmits : StorageRead(i)
    \/ \E i \in 1..MaxSubmits, r \in Responses : Response(i, r)

FairSpec == Spec /\ WF_vars(Progress)

(***************************************************************************)
(* The date functions on their own.  The clock and the zone are drawn from *)
(* the inputs; one step sets the form's date to any candidate (setValue),  *)
(* validates it as handleSubmit's resolver does and, when it is accepted,  *)
(* formats it as onSubmit does for the request and for the confirmation.   *)
(***************************************************************************)
InitDates ==
    /\ now \in ClockTimes
    /\ tz \in Offsets
    /\ platform = "android"
    /\ storage = "u1"
    /\ Mounted

SubmitDate ==
    /\ outcome = "none"
    /\ \E d \in Candidates(now, tz) :
        LET issues == bookSchema(d, now, tz)
            req == [id |-> 1, date |-> ToISODate(d), user_id |-> UserId(storage)]
            fx == <<Posted(req), Alerted(SuccessAlert(ToLocaleDateString(d, tz)))>>
        IN  /\ formDate' = d
            /\ data' = d
            /\ errors' = issues
            /\ IF issues # <<>>
               THEN /\ outcome' = "invalid"
                    /\ UNCHANGED <<effects, alert>>
               ELSE /\ outcome' = Success
                    /\ effects' = fx
                    /\ alert' = AlertsAfter(fx)
    /\ UNCHANGED <<now, tz, platform, showDatePicker, isLoading, isSubmitting,
                   runs, storage, inflight, screen, taps, sent>>

NextDates == SubmitDate

SpecDates == InitDates /\ [][NextDates]_vars

(***************************************************************************)
(* Properties of the validator (under SpecDates).                          *)
(***************************************************************************)
\* The local calendar days, as day numbers, of the clock, of the form's date
\* and of today advanced by three calendar months.
Today == Day(LocalTime(now, tz))
DateDay == Day(LocalTime(formDate, tz))
BoundDay ==
    LET today == SetHoursZero(now, tz)
    IN  Day(LocalTime(SetMonth(today, GetMonth(today, tz) + MonthsAhead, tz), tz))

DateValidated == outcome # "none"

\* C1: every date whose calendar day lies between today and today plus three
\* calendar months, whatever its time of day, is accepted by the validator.
C1_WindowAccepted ==
    (DateValidated /\ Today <= DateDay /\ DateDay <= BoundDay) => errors = <<>>

\* C2: a date whose calendar day is before today is rejected with the "today
\* or future" message alone, one whose day is after today plus three calendar
\* months with the "three months" message alone, and no date fails both rules.
C2_OutsideRejected ==
    DateValidated =>
        /\ DateDay < Today => errors = <<MsgPast>>
        /\ DateDay > BoundDay => errors = <<MsgFuture>>
        /\ Len(errors) <= 1

\* A date one day beyond the bound was rejected, today being the 31st.
C2_Witness ==
    /\ DateValidated
    /\ Calendar[Today][3] = 31
    /\ DateDay = BoundDay + 1
    /\ errors = <<MsgFuture>>

\* C9: the date sent to the server denotes the calendar day shown in the
\* confirmation and in the form.
C9_SameDaySent ==
    outcome = Success =>
        /\ DayOfISO(effects[1].arg.date) = DayOfBR(effects[2].arg.date)
        /\ DayOfISO(effects[1].arg.date) = DayOfBR(formatDate(formDate, tz))

\* C10: every date the picker offers at this moment (from minimumDate to
\* maximumDate) is accepted by the validator at the same moment.
C10_PickerAccepted ==
    (DateValidated /\ MinimumDate(now) <= formDate /\ formDate <= MaximumDate(now))
        => errors = <<>>

(***************************************************************************)
(* Properties of the submission flow (under Spec and FairSpec).            *)
(***************************************************************************)
Range(seq) == {seq[k] : k \in 1..Len(seq)}

Submitting == \E k \in 1..Len(runs) : InOnSubmit(runs[k])

\* C3: at most one request is in flight and at most one onSubmit is running;
\* while one runs the submit control is disabled.
C3_SingleFlight ==
    /\ Cardinality(inflight) <= 1
    /\ Len(SelectSeq(runs, InOnSubmit)) <= 1
    /\ Submitting => SubmitDisabled

\* A second submission's request is in flight, alone.
C3_Witness ==
    /\ taps = 2
    /\ Cardinality(inflight) = 1
    /\ SubmitDisabled

\* C4: isLoading holds exactly while an onSubmit is between its start and its
\* finally block, and every started submission clears it again.
C4_LoadingExactly ==
    /\ [](isLoading <=> Submitting)
    /\ (isLoading ~> ~isLoading)

\* A submission answered with 401 has returned and cleared the flag.
C4_Witness ==
    /\ outcome = "401"
    /\ runs = <<>>
    /\ ~isLoading

\* C5: after a 401 the user has been shown the "session expired" message and
\* the flow has navigated to Login.
C5_ExpiredShown ==
    outcome = "401" =>
        /\ Alerted(ErrorAlert(MsgExpired)) \in Range(effects)
        /\ Navigated("Login") \in Range(effects)

\* C6: a submission that failed with 400, 409, another status but 401, or no
\* response sent its one request and then showed exactly one alert, with the
\* message of its class, and did nothing else; requests never outnumber
\* submit presses.
FailureClasses == {"400", "409", "500", Undefined}

ClassMessage(o) ==
    CASE o = "400" -> MsgInvalid
      [] o = "409" -> MsgConflict
      [] OTHER -> MsgGeneric

C6_OneErrorAlert ==
    /\ outcome \in FailureClasses =>
        /\ Len(effects) = 2
        /\ effects[1].op = "post"
        /\ effects[2] = Alerted(ErrorAlert(ClassMessage(outcome)))
    /\ sent <= taps

\* A 409 left its alert on the Book screen.
C6_Witness ==
    /\ outcome = "409"
    /\ alert = <<ErrorAlert(MsgConflict)>>
    /\ screen = "Book"
    /\ sent = 1

\* C7: a submission that found no user id sent nothing, showed the "log in
\* again" alert and navigated to Login; every request sent carries a
\* non-empty user id.
C7_NoUserNoRequest ==
    /\ outcome = "nouser" =>
        effects = <<Alerted(ErrorAlert(MsgLogin)), Navigated("Login")>>
    /\ storage \in {Null, ""} => sent = 0
    /\ \A q \in inflight : q.user_id \notin {Null, ""}
    /\ \A e \in Range(effects) : e.op = "post" => e.arg.user_id \notin {Null, ""}

\* An empty stored value ended a submission on the Login screen.
C7_Witness ==
    /\ outcome = "nouser"
    /\ storage = ""
    /\ screen = "Login"
    /\ sent = 0

\* C8: a successful submission shows the confirmation for the submitted date
\* (data, until the next submission replaces it);
\* the confirmation's acknowledgment resets the form's date to the current
\* date and navigates to List, and nothing else the flow does changes the
\* form's date or navigates to List.
Acknowledged ==
    /\ alert # <<>>
    /\ alert[Len(alert)].title = "Sucesso!"
    /\ alert' = SubSeq(alert, 1, Len(alert) - 1)

C8_ResetOnAck ==
    /\ []((outcome = Success /\ runs = <<>>) =>
            /\ Len(effects) = 2
            /\ effects[2].op = "alert"
            /\ effects[2].arg.title = "Sucesso!"
            /\ DayOfBR(effects[2].arg.date) = CivilDay(Day(LocalTime(data, tz))))
    /\ [][/\ Acknowledged => (formDate' = now /\ screen' = "List")
          /\ formDate' # formDate =>
                (Acknowledged \/ \E d \in PickerChoices(now) : onDateChange(d))
          /\ (screen' = "List" /\ screen # "List") =>
                (Acknowledged \/ handleCancel)]_vars

\* The confirmation was acknowledged: the form shows the current date, not
\* the submitted one, on the List screen.
C8_Witness ==
    /\ outcome = Success
    /\ alert = <<>>
    /\ screen = "List"
    /\ formDate = now
    /\ data # formDate

====
